---- MODULE Spec2Model ----
(***************************************************************************)
(* A model of three parts of goldenverba:                                  *)
(*   - StoryJSONGenerator.video_idea_to_timeline_commands, the timeline    *)
(*     synthesis with its greedy audio track allocation (SpecTimeline);    *)
(*   - PlanningGenerator, the two-state plan/confirm conversation machine  *)
(*     (SpecPlanning);                                                     *)
(*   - VerbaManager.import_data with its duplicate filter (SpecImport).    *)
(* Times and durations are integers: one unit is one tick of the schema's  *)
(* float seconds. Strings that no decision of the code depends on (clip    *)
(* paths, urls, transforms, prompts) are left out of the records.          *)
(***************************************************************************)
EXTENDS Integers, Sequences, FiniteSets, TLC

\* ---------------------------------------------------------------------------
\* Bounds of the model
\* ---------------------------------------------------------------------------
\* shots of one detailed schema
MaxShots == 2
\* image layers + sound effects + dialogue lines of one detailed schema
MaxItems == 4
\* declared durations range over 1..MaxDur
MaxDur == 2
\* steps of one generated editing plan
MaxSteps == 2
\* files of one import_data batch
MaxFiles == 2
\* calls of import_data
MaxImports == 2
MaxChunks == 2
MaxDocChunks == 1
MaxBatch == 2

VARIABLES
    \* --- video_idea_to_timeline_commands ---
    shots,                  \* video_idea.shots, the shots iterated so far
    commands,               \* commands["message"]["actions"]
    current_time,
    audio_next_track,
    audio_track_end_times,  \* dict track -> end time, keys inserted 1, 2, 3...
    tpc,                    \* "loop" inside the shot loop, "done" once returned
    \* --- PlanningGenerator ---
    state,                  \* self.state
    conv,                   \* the callers' conversation dicts: <<>> without a
                            \* 'last_plan' key, <<plan>> with one
    turn,                   \* the last turn handled by generate_stream
    built_for,              \* the conversation argument of the last instruction
                            \* turn that built a plan, Absent before any
    \* --- VerbaManager.import_data ---
    store,                  \* the VERBA_Document class of the vector store:
                            \* how many documents it holds under each doc_name
    handed,                 \* the documents passed to embedder_manager.embed by
                            \* the last import_data call
    log,                    \* the logging list the last call returned
    call,                   \* the last call: the files and the log it was
                            \* given, the documents and the log its reader
                            \* returned, and the store as the call found it
    imports,                \* import_data calls so far
    \* --- VerbaManager.retrieve_chunks ---
    hits,                   \* the query results the retriever received
    fetched,                \* what retrieve_document answers for each doc_uuid
    retrieved,              \* the chunks the retriever returned
    processed_chunks,
    chunk_info,
    first_template_public_id,
    rpc,                    \* "call" before retrieve_chunks is called, "done"
                            \* once it returned; it keeps nothing between calls
    \* --- Document.to_json / Document.from_json ---
    given_document,         \* a Document object
    doc_dict,               \* Document.to_json(given_document)
    restored,               \* Document.from_json(doc_dict)
    dpc,                    \* "new", "built", "dumped", "loaded"
    \* --- chunker_manager.chunk (MemeChunker, TranscriptionChunker, VideoChunker) ---
    selected_chunker,
    batch,                  \* the documents given to chunk
    chunked,                \* what the call raised or returned
    cpc,                    \* "call" before chunk is called, "done" after
    \* --- the stage managers' selections ---
    selected,               \* stage -> the name of its selected strategy
    selection               \* the last setter call: the stage, the name asked
                            \* for, the selection before it, whether it failed

tvars == <<shots, commands, current_time, audio_next_track,
           audio_track_end_times, tpc>>

pvars == <<state, conv, turn, built_for>>

ivars == <<store, handed, log, call, imports>>

rvars == <<hits, fetched, retrieved, processed_chunks, chunk_info,
           first_template_public_id, rpc>>

dvars == <<given_document, doc_dict, restored, dpc>>

cvars == <<selected_chunker, batch, chunked, cpc>>

svars == <<selected, selection>>

vars == <<tvars, pvars, ivars, rvars, dvars, cvars, svars>>

\* ---------------------------------------------------------------------------
\* Helpers
\* ---------------------------------------------------------------------------
Min(S) == CHOOSE x \in S : \A y \in S : x <= y

Max(S) == CHOOSE x \in S : \A y \in S : x >= y

RECURSIVE SumSeq(_)
SumSeq(s) == IF s = <<>> THEN 0 ELSE Head(s) + SumSeq(Tail(s))

\* ---------------------------------------------------------------------------
\* The detailed schema (DetailedStorySchema and its parts)
\* ---------------------------------------------------------------------------
LayerNames == <<"Background", "Subject", "Foreground">>

\* ImageLayer: layer is one of the three literals, duration >= 0.1
ImageLayer == [layer : {LayerNames[i] : i \in 1..3}, duration : 1..MaxDur]

\* SoundEffect: duration >= 0.1 (its layer only names the clip path)
SoundEffect == [duration : 1..MaxDur]

\* DialogueLine: audio_file and duration are Optional; duration 0 stands for
\* the falsy values None and 0.0, audio_file FALSE for None and ""
DialogueLine == [audio_file : BOOLEAN, duration : 0..MaxDur]

\* DetailedShot with at most n items in its three lists together
DetailedShot(n) ==
    UNION {UNION {UNION {
        [duration : 1..MaxDur,
         images : [1..a -> ImageLayer],
         sound_effects : [1..b -> SoundEffect],
         dialogue : [1..c -> DialogueLine]]
        : c \in 0..(n - a - b)} : b \in 0..(n - a)} : a \in 0..n}

ItemsOf(shot) == Len(shot.images) + Len(shot.sound_effects) + Len(shot.dialogue)

RECURSIVE ItemsIn(_)
ItemsIn(ss) == IF ss = <<>> THEN 0 ELSE ItemsOf(Head(ss)) + ItemsIn(Tail(ss))

\* ---------------------------------------------------------------------------
\* video_idea_to_timeline_commands
\* ---------------------------------------------------------------------------
\* video_track_mapping
video_track_mapping(layer_name) ==
    CASE layer_name = "Background" -> 1
      [] layer_name = "Subject" -> 2
      [] layer_name = "Foreground" -> 3

\* one insert_clip action. clipPath keeps what tells the clip paths apart: the
\* layer name of an image ("{layer}_{n}.png"), "sound" for a sound effect
\* ("{layer}_{n}.wav"), "dialogue" for a line's audio_file; shot is the index
\* of the shot that emitted the command
InsertClip(clipPath, assetType, track, start, length, shot) ==
    [action |-> "insert_clip", clipPath |-> clipPath, assetType |-> assetType,
     track |-> track, start |-> start, length |-> length, shot |-> shot]

\* images = [img for img in shot.images if img.layer == layer_name]
RECURSIVE ImagesOfLayer(_, _)
ImagesOfLayer(images, layer_name) ==
    IF images = <<>> THEN <<>>
    ELSE IF Head(images).layer = layer_name
         THEN <<Head(images)>> \o ImagesOfLayer(Tail(images), layer_name)
         ELSE ImagesOfLayer(Tail(images), layer_name)

\* the inner loop "for image in images" of one layer
RECURSIVE ImageCommands(_, _, _, _)
ImageCommands(images, layer_name, now, shot) ==
    IF images = <<>> THEN <<>>
    ELSE <<InsertClip(layer_name, "video", video_track_mapping(layer_name), now,
                      Head(images).duration, shot)>>
         \o ImageCommands(Tail(images), layer_name, now, shot)

\* for layer_name in ["Background", "Subject", "Foreground"]
ImageLayersSubjectFirst(shot, now, idx) ==
    ImageCommands(ImagesOfLayer(shot.images, LayerNames[2]), LayerNames[2], now, idx)
    \o ImageCommands(ImagesOfLayer(shot.images, LayerNames[1]), LayerNames[1], now, idx)
    \o ImageCommands(ImagesOfLayer(shot.images, LayerNames[3]), LayerNames[3], now, idx)

ImageLayers(shot, now, idx) ==
    ImageCommands(ImagesOfLayer(shot.images, LayerNames[1]), LayerNames[1], now, idx)
    \o ImageCommands(ImagesOfLayer(shot.images, LayerNames[2]), LayerNames[2], now, idx)
    \o ImageCommands(ImagesOfLayer(shot.images, LayerNames[3]), LayerNames[3], now, idx)

\* the test of the track scan: "if current_time >= end_time"
TrackIsFreeInverted(start, end_time) == start <= end_time

TrackIsFreeStrict(start, end_time) == start > end_time

TrackIsFree(start, end_time) == start >= end_time

\* the scan over audio_track_end_times.items() (insertion order = ascending
\* track id) and the allocation of a new track: the assigned track
AssignedTrackLastFree(end_times, next_track, start) ==
    LET free == {t \in DOMAIN end_times : TrackIsFree(start, end_times[t])}
    IN IF free = {} THEN next_track ELSE Max(free)

AssignedTrack(end_times, next_track, start) ==
    LET free == {t \in DOMAIN end_times : TrackIsFree(start, end_times[t])}
    IN IF free = {} THEN next_track ELSE Min(free)

\* audio_next_track after the assignment
NextTrackAfter(end_times, next_track, start) ==
    IF AssignedTrack(end_times, next_track, start) = next_track
       /\ next_track \notin DOMAIN end_times
    THEN next_track + 1 ELSE next_track

\* the end time recorded for a dialogue line
DialogueEndTime(now, dialogue_start_time, duration) == dialogue_start_time + duration

\* audio_track_end_times[assigned_track] = end
SetEndTime(end_times, track, end) ==
    [t \in (DOMAIN end_times) \cup {track} |->
        IF t = track THEN end ELSE end_times[t]]

\* the loop "for sound in shot.sound_effects"; st = [next, ends, cmds]
RECURSIVE SoundEffects(_, _, _, _)
SoundEffects(st, sounds, now, shot) ==
    IF sounds = <<>> THEN st
    ELSE LET sound == Head(sounds)
             track == AssignedTrack(st.ends, st.next, now)
         IN SoundEffects(
              [next |-> NextTrackAfter(st.ends, st.next, now),
               ends |-> SetEndTime(st.ends, track, now + sound.duration),
               cmds |-> Append(st.cmds,
                          InsertClip("sound", "audio", track, now,
                                      sound.duration, shot))],
              Tail(sounds), now, shot)

\* dialogue_start_time += dialogue_line.duration
NextDialogueStartStuck(dialogue_start_time, duration) == dialogue_start_time

NextDialogueStart(dialogue_start_time, duration) == dialogue_start_time + duration

\* "if dialogue_line.audio_file and dialogue_line.duration"
HasAudioEither(dialogue_line) == dialogue_line.audio_file \/ dialogue_line.duration # 0

HasAudio(dialogue_line) == dialogue_line.audio_file /\ dialogue_line.duration # 0

\* the loop "for dialogue_line in shot.dialogue"; st = [next, ends, cmds],
\* dst = dialogue_start_time
RECURSIVE Dialogue(_, _, _, _, _)
Dialogue(st, lines, dst, now, shot) ==
    IF lines = <<>> THEN st
    ELSE LET line == Head(lines)
             track == AssignedTrack(st.ends, st.next, dst)
         IN IF HasAudio(line)
            THEN Dialogue(
                   [next |-> NextTrackAfter(st.ends, st.next, dst),
                    ends |-> SetEndTime(st.ends, track,
                                DialogueEndTime(now, dst, line.duration)),
                    cmds |-> Append(st.cmds,
                               InsertClip("dialogue", "audio", track, dst,
                                           line.duration, shot))],
                   Tail(lines), NextDialogueStart(dst, line.duration), now, shot)
            ELSE Dialogue(st, Tail(lines), dst, now, shot)

\* the body of "for shot_index, shot in enumerate(video_idea.shots)"
ShotBody(st, shot, now, idx) ==
    LET withImages == [st EXCEPT !.cmds = st.cmds \o ImageLayers(shot, now, idx)]
        withSounds == SoundEffects(withImages, shot.sound_effects, now, idx)
    IN Dialogue(withSounds, shot.dialogue, now, now, idx)

\* current_time += shot_duration
AdvanceTimeAssigned(now, shot_duration) == shot_duration

AdvanceTime(now, shot_duration) == now + shot_duration

TimelineInit ==
    /\ shots = <<>>
    /\ commands = <<>>
    /\ current_time = 0
    /\ audio_next_track = 1
    /\ audio_track_end_times = <<>>
    /\ tpc = "loop"

\* one iteration of the shot loop, over the next shot of the schema
ProcessShot(shot) ==
    /\ tpc = "loop"
    /\ Len(shots) < MaxShots
    /\ \E st \in {ShotBody([next |-> audio_next_track,
                              ends |-> audio_track_end_times,
                              cmds |-> commands],
                             shot, current_time, Len(shots) + 1)} :
          /\ commands' = st.cmds
          /\ audio_next_track' = st.next
          /\ audio_track_end_times' = st.ends
    /\ current_time' = AdvanceTime(current_time, shot.duration)
    /\ shots' = Append(shots, shot)
    /\ UNCHANGED tpc

\* the schema has no further shot: the commands are dumped and returned
ReturnTimeline ==
    /\ tpc = "loop"
    /\ tpc' = "done"
    /\ UNCHANGED <<shots, commands, current_time, audio_next_track,
                   audio_track_end_times>>

TimelineNext ==
    \/ \E shot \in DetailedShot(MaxItems - ItemsIn(shots)) : ProcessShot(shot)
    \/ ReturnTimeline

\* ---------------------------------------------------------------------------
\* PlanningGenerator: what the LLM may answer
\* ---------------------------------------------------------------------------
\* JSON values, as far as the code tells them apart
Absent == "<absent>"            \* the key is missing
NonStr == "<not a string>"      \* a number, null, ... where a str is required
NonDict == "<not a dict>"       \* a string, list, ... where a dict is required
Dict == "<dict>"                \* a JSON object
EmptyDict == "{}"
None == "None"
Text == "text"

\* one element of "steps" in the function-call arguments
RawStep ==
    {[isdict |-> TRUE, operation |-> op, params |-> Dict, description |-> Text]
        : op \in {"insert_clip", "delete_section", "trim"}}
    \cup {[isdict |-> TRUE, operation |-> Absent, params |-> Absent, description |-> Absent],
          [isdict |-> TRUE, operation |-> NonStr, params |-> Dict, description |-> Text],
          [isdict |-> TRUE, operation |-> "insert_clip", params |-> NonDict, description |-> Text],
          [isdict |-> FALSE, operation |-> Absent, params |-> Absent, description |-> Absent]}

NoResponse == [kind |-> "none", steps_kind |-> "absent", steps |-> <<>>, summary |-> Absent]

\* the outcome of openai.ChatCompletion.acreate in handle_initial_request:
\* a timeout, another exception, or function_call.arguments, which is text
\* that is no JSON, JSON that is no object, or an object whose "steps" is
\* missing, "" or {}, null, a non-empty string, or a list
FunctionResponse ==
    {[NoResponse EXCEPT !.kind = k]
        : k \in {"timeout", "api_error", "invalid_json", "not_object"}}
    \cup [kind : {"object"}, steps_kind : {"absent", "empty", "null", "string"},
          steps : {<<>>}, summary : {Text, Absent}]
    \cup UNION {[kind : {"object"}, steps_kind : {"list"},
                 steps : [1..n -> RawStep], summary : {Text, Absent}]
                : n \in 0..MaxSteps}

\* message.content of the classification call in handle_confirmation
APIError == "<api error>"

ClassifierContent ==
    {"CONFIRM", " confirm\n", "CHANGE", "change", "CLARIFY", "CONFIRM.", "yes"}

\* content.strip().upper()
StripUpper(content) ==
    CASE content = " confirm\n" -> "CONFIRM"
      [] content = "change" -> "CHANGE"
      [] content = "yes" -> "YES"
      [] OTHER -> content

\* ---------------------------------------------------------------------------
\* PlanningGenerator: handle_initial_request
\* ---------------------------------------------------------------------------
\* EditingOperation: operation and description are str, params is an
\* optional dict
ValidOperation(step) ==
    /\ step.isdict
    /\ step.operation \notin {Absent, NonStr}
    /\ step.description \notin {Absent, NonStr}
    /\ step.params # NonDict

\* EditingPlan.model_validate_json(function_response) does not raise
ValidPlan(response) ==
    /\ response.kind = "object"
    /\ response.summary \notin {Absent, NonStr}
    /\ response.steps_kind = "list"
    /\ \A i \in 1..Len(response.steps) : ValidOperation(response.steps[i])

\* parsed_plan.model_dump()
ModelDump(response) ==
    [steps |-> [i \in 1..Len(response.steps) |->
                  [operation |-> response.steps[i].operation,
                   params |-> IF response.steps[i].params = Absent
                              THEN None ELSE response.steps[i].params,
                   description |-> response.steps[i].description]],
     summary |-> response.summary]

\* step.get(key, default)
Get(value, default) == IF value = Absent THEN default ELSE value

\* the exception the manual pass raises, "" when it completes
ManualRaisesNothing(response) == ""

ManualRaises(response) ==
    CASE response.kind = "invalid_json" -> "JSONDecodeError"
      [] response.kind = "not_object" -> "AttributeError"
      [] response.steps_kind = "null" -> "TypeError"
      [] response.steps_kind = "string" -> "AttributeError"
      [] \E i \in 1..Len(response.steps) : ~response.steps[i].isdict -> "AttributeError"
      [] OTHER -> ""

\* plan_dict of the manual pass
ManualPlan(response) ==
    [steps |-> [i \in 1..Len(response.steps) |->
                  [operation |-> Get(response.steps[i].operation, "Unknown operation"),
                   params |-> Get(response.steps[i].params, EmptyDict),
                   description |-> Get(response.steps[i].description,
                                       "No description provided")]],
     summary |-> "Error in plan generation"]

\* "if conversation is not None: conversation['last_plan'] = ..."
StoreLastPlanNever(conversations, conversation, plan_dict) == conversations

StoreLastPlan(conversations, conversation, plan_dict) ==
    IF conversation # None
    THEN [conversations EXCEPT ![conversation] = <<plan_dict>>]
    ELSE conversations

\* self.state after a plan was built
StateAfterPlanUnchanged(old) == old

StateAfterPlan(old) == "AWAITING_CONFIRMATION"

\* handle_initial_request: what it returns or raises, and the state and the
\* conversations it leaves
HandleInitialRequest(conversation, response) ==
    LET unchanged(returned, raised) ==
            [returned |-> returned, raised |-> raised, results |-> <<>>,
             state |-> state, conv |-> conv]
        built(plan_dict) ==
            [returned |-> "plan", raised |-> "", results |-> <<>>,
             state |-> StateAfterPlan(state),
             conv |-> StoreLastPlan(conv, conversation, plan_dict)]
    IN CASE response.kind = "timeout" -> unchanged("API call timed out", "")
         [] response.kind = "api_error" -> unchanged("", "Exception")
         [] ValidPlan(response) -> built(ModelDump(response))
         [] ManualRaises(response) # "" -> unchanged("", ManualRaises(response))
         [] OTHER -> built(ManualPlan(response))

\* ---------------------------------------------------------------------------
\* PlanningGenerator: handle_confirmation and execute_plan
\* ---------------------------------------------------------------------------
\* insert_clip and delete_section are placeholders that format a string and
\* stand for calls into the VideoEditingGenerator. The model lets the awaited
\* operation of the steps in "failing" raise, so that the except clause of
\* execute_plan is reached; the branch for other operations awaits nothing.
OperationRaises(step, i, failing) ==
    step.operation \in {"insert_clip", "delete_section"} /\ i \in failing

\* one iteration of the loop of execute_plan
ExecuteStep(step, i, failing) ==
    IF OperationRaises(step, i, failing)
    THEN [operation |-> step.operation, description |-> step.description,
          result |-> Absent, error |-> "str(e)", status |-> "failed"]
    ELSE [operation |-> step.operation, description |-> step.description,
          result |-> CASE step.operation = "insert_clip" -> "Inserted clip"
                      [] step.operation = "delete_section" -> "Deleted section"
                      [] OTHER -> "not implemented",
          error |-> Absent, status |-> "success"]

\* the loop leaves at the first step that fails
ExecutePlanUntilFailure(plan, failing) ==
    LET failed == {i \in 1..Len(plan.steps) :
                       OperationRaises(plan.steps[i], i, failing)}
        last == IF failed = {} THEN Len(plan.steps) ELSE Min(failed)
    IN [i \in 1..last |-> ExecuteStep(plan.steps[i], i, failing)]

ExecutePlan(plan, failing) ==
    [i \in 1..Len(plan.steps) |-> ExecuteStep(plan.steps[i], i, failing)]

\* EditingPlan.model_validate_json(conversation['last_plan']) does not raise
ValidStoredPlan(plan) ==
    \A i \in 1..Len(plan.steps) :
        /\ plan.steps[i].operation # NonStr
        /\ plan.steps[i].description # NonStr
        /\ plan.steps[i].params # NonDict

\* "if conversation and 'last_plan' in conversation"
HasLastPlan(conversation) ==
    conversation # None /\ conv[conversation] # <<>>

\* self.state after a CHANGE
StateAfterChangeUnchanged(old) == old

StateAfterChange(old) == "AWAITING_INSTRUCTION"

StateAfterNoPlanReset(old) == "AWAITING_INSTRUCTION"

\* the "No plan found" branch assigns nothing to self.state
StateAfterNoPlan(old) == old

StateAfterNoDecisionReset(old) == "AWAITING_INSTRUCTION"

\* the CLARIFY branch and the final else branch assign nothing to self.state
StateAfterNoDecision(old) == old

\* handle_confirmation: what it returns or raises, and the state and the
\* conversations it leaves
HandleConfirmation(conversation, content, failing) ==
    LET response == StripUpper(content)
        stays(returned, raised) ==
            [returned |-> returned, raised |-> raised, results |-> <<>>,
             state |-> state, conv |-> conv]
    IN CASE content = APIError -> stays("", "Exception")
         [] response = "CONFIRM" /\ HasLastPlan(conversation) ->
              LET plan == conv[conversation][1]
              IN IF ValidStoredPlan(plan)
                 THEN [returned |-> "execution_results", raised |-> "",
                       results |-> ExecutePlan(plan, failing),
                       state |-> "AWAITING_INSTRUCTION", conv |-> conv]
                 ELSE stays("", "ValidationError")
         [] response = "CONFIRM" /\ ~HasLastPlan(conversation) ->
              [stays("No plan found to execute", "")
                  EXCEPT !.state = StateAfterNoPlan(state)]
         [] response = "CHANGE" ->
              [returned |-> "describe changes", raised |-> "", results |-> <<>>,
               state |-> StateAfterChange(state), conv |-> conv]
         [] response = "CLARIFY" ->
              [stays("clarify", "") EXCEPT !.state = StateAfterNoDecision(state)]
         [] OTHER ->
              [stays("Unexpected response", "")
                  EXCEPT !.state = StateAfterNoDecision(state)]

\* ---------------------------------------------------------------------------
\* PlanningGenerator: generate and generate_stream
\* ---------------------------------------------------------------------------
\* What generate_stream yields for a handler's outcome. A dict returned by a
\* handler has no 'choices' key, so generate's completion['choices'] raises
\* KeyError; the KeyError/TypeError/IndexError clause then reads the local
\* "plan" before it was assigned, and the UnboundLocalError leaves generate
\* and is reported by generate_stream.
Reply(outcome) ==
    CASE outcome.raised = "" -> "Error generating editing plan"
      [] outcome.raised = "JSONDecodeError" -> "Failed to parse the generated plan"
      [] outcome.raised \in {"KeyError", "TypeError", "IndexError"} ->
            "Error generating editing plan"
      [] OTHER -> "Error in PlanningGenerator"

\* what a turn's record keeps of the LLM's answer to the plan request:
\* whether the call timed out or raised, and whether its arguments are a JSON
\* object whose "steps", if present, can be iterated as a list of objects
\* ("" or {} iterate as no step)
ResponseShape(response) ==
    CASE response.kind \in {"timeout", "api_error", "none"} -> response.kind
      [] /\ response.kind = "object"
         /\ response.steps_kind \in {"absent", "empty", "list"}
         /\ \A i \in 1..Len(response.steps) : response.steps[i].isdict -> "plan"
      [] OTHER -> "unparseable"

\* the record of a turn: the handler that ran, the conversation argument, the
\* shape of the plan arguments and, when they have the shape of a plan, the
\* number of raw steps (instruction turns), the normalised classification (confirmation turns), what the
\* handler returned or raised, the results of execute_plan and the steps
\* whose operation raised, and the message generate_stream yielded
NoTurn ==
    [handler |-> "none", conversation |-> None, shape |-> "none", raw_steps |-> 0,
     raising |-> {},
     classification |-> "", returned |-> "", raised |-> "", results |-> <<>>,
     reply |-> ""]

PlanningInit ==
    /\ state = "AWAITING_INSTRUCTION"
    /\ conv = [c \in {"c1"} |-> <<>>]
    /\ turn = NoTurn
    /\ built_for = Absent

\* one call of generate_stream while self.state is AWAITING_INSTRUCTION
InstructionTurn(conversation, response) ==
    /\ state = "AWAITING_INSTRUCTION"
    /\ \E outcome \in {HandleInitialRequest(conversation, response)} :
          /\ state' = outcome.state
          /\ conv' = outcome.conv
          /\ turn' = [handler |-> "handle_initial_request",
                      conversation |-> conversation,
                      shape |-> ResponseShape(response),
                      raising |-> {},
                      raw_steps |-> IF ResponseShape(response) = "plan"
                                    THEN Len(response.steps) ELSE 0,
                      classification |-> "", returned |-> outcome.returned,
                      raised |-> outcome.raised, results |-> outcome.results,
                      reply |-> Reply(outcome)]

\* one call of generate_stream while self.state is AWAITING_CONFIRMATION
ConfirmationTurn(conversation, content, failing) ==
    /\ state = "AWAITING_CONFIRMATION"
    /\ \E outcome \in {HandleConfirmation(conversation, content, failing)} :
          /\ state' = outcome.state
          /\ conv' = outcome.conv
          /\ turn' = [handler |-> "handle_confirmation",
                      conversation |-> conversation,
                      shape |-> "none", raw_steps |-> 0,
                      raising |-> {i \in 1..Len(outcome.results) :
                                      OperationRaises(conv[conversation][1].steps[i],
                                                      i, failing)},
                      classification |-> IF content = APIError THEN ""
                                         ELSE StripUpper(content),
                      returned |-> outcome.returned,
                      raised |-> outcome.raised, results |-> outcome.results,
                      reply |-> Reply(outcome)]

PlanningNext ==
    /\ UNCHANGED built_for
    /\ \/ \E conversation \in (DOMAIN conv) \cup {None}, response \in FunctionResponse :
             InstructionTurn(conversation, response)
       \/ \E conversation \in (DOMAIN conv) \cup {None},
             content \in ClassifierContent \cup {APIError},
             failing \in SUBSET (1..MaxSteps) :
             ConfirmationTurn(conversation, content, failing)

\* ---------------------------------------------------------------------------
\* PlanningGenerator: one instance serving two conversations
\* ---------------------------------------------------------------------------
\* the conversation dicts of two callers of the same generator instance
Conversations == {"c1", "c2"}

SharedInit ==
    /\ state = "AWAITING_INSTRUCTION"
    /\ conv = [c \in Conversations |-> <<>>]
    /\ turn = NoTurn
    /\ built_for = Absent

\* the answers of the plan request told apart here: a timeout, a plan that
\* validates, with no step or with one
SharedResponse ==
    {[NoResponse EXCEPT !.kind = "timeout"]}
    \cup {[kind |-> "object", steps_kind |-> "list", steps |-> steps, summary |-> Text]
            : steps \in {<<>>,
                         <<[isdict |-> TRUE, operation |-> "insert_clip",
                            params |-> Dict, description |-> Text]>>}}

\* the turns of the two callers in any order, each passing its own dict
SharedNext ==
    \/ \E conversation \in Conversations, response \in SharedResponse :
          /\ InstructionTurn(conversation, response)
          /\ built_for' = IF turn'.returned = "plan" THEN conversation ELSE built_for
    \/ \E conversation \in Conversations, content \in ClassifierContent :
          /\ ConfirmationTurn(conversation, content, {})
          /\ UNCHANGED built_for

\* ---------------------------------------------------------------------------
\* VerbaManager.import_data
\* ---------------------------------------------------------------------------
DocNames == {"a", "b"}

Malformed == "<malformed>"

\* FileData: the extension, and the content as the document name it yields
\* once decoded and parsed, or content that fails to parse
FileData ==
    [extension : {"json"}, content : DocNames \cup {Malformed}]
    \cup [extension : {"txt"}, content : {"a"}]

\* what the store returns to the doc_name lookup: a payload with "data", or
\* an error payload without it
LookupAnswer == {"data", "errors"}

\* Reader.load (CustomMemeReader, TranscriptionReader and VideoReader share
\* this loop): st = [documents, logging]
RECURSIVE Load(_, _)
Load(st, fileData) ==
    IF fileData = <<>> THEN st
    ELSE LET file == Head(fileData)
         IN IF file.extension = "json"
            THEN IF file.content # Malformed
                 THEN Load([st EXCEPT !.documents =
                              Append(@, [name |-> file.content, chunks |-> 0])],
                           Tail(fileData))
                 ELSE Load([st EXCEPT !.logging =
                              Append(@, [type |-> "WARNING", message |-> "Failed to load",
                                         name |-> file.content])],
                           Tail(fileData))
            ELSE Load(st, Tail(fileData))

\* check_if_document_exits: the lookup's results name the document when they
\* carry "data" and the list under it is not empty; an error payload is only
\* warned about
check_if_document_exits(stored, document, answer) ==
    IF answer = "data" THEN stored[document.name] > 0 ELSE FALSE

\* the loop "for document in loaded_documents": st = [documents, logging],
\* answers[i] is the store's answer to the lookup of the i-th loaded document
RECURSIVE FilterDocuments(_, _, _, _)
FilterDocuments(st, loaded_documents, answers, stored) ==
    IF loaded_documents = <<>> THEN st
    ELSE LET document == Head(loaded_documents)
         IN IF ~check_if_document_exits(stored, document, Head(answers))
            THEN FilterDocuments([st EXCEPT !.documents = Append(@, document)],
                                 Tail(loaded_documents), Tail(answers), stored)
            ELSE FilterDocuments(
                   [st EXCEPT !.logging =
                       Append(@, [type |-> "WARNING", message |-> "already exists",
                                  name |-> document.name])],
                   Tail(loaded_documents), Tail(answers), stored)

\* MemeChunker.chunk, the chunker selected by set_meme_chunker: every
\* document gets one chunk
MemeChunk(documents) ==
    [i \in 1..Len(documents) |-> [documents[i] EXCEPT !.chunks = 1]]

\* embedder_manager.embed: the documents are written to the vector store
RECURSIVE Embed(_, _)
Embed(stored, documents) ==
    IF documents = <<>> THEN stored
    ELSE Embed([stored EXCEPT ![Head(documents).name] = @ + 1], Tail(documents))

ImportInit ==
    /\ store = [n \in DocNames |-> 0]
    /\ handed = <<>>
    /\ log = <<>>
    /\ call = [files |-> <<>>, given |-> <<>>, loaded |-> <<>>,
               load_log |-> <<>>, stored |-> [n \in DocNames |-> 0]]
    /\ imports = 0

\* one call of import_data
ImportData(fileData, logging, answers) ==
    /\ imports < MaxImports
    /\ LET loaded == Load([documents |-> <<>>, logging |-> logging], fileData)
           filtered == FilterDocuments([documents |-> <<>>, logging |-> loaded.logging],
                                       loaded.documents, answers, store)
           modified_documents == MemeChunk(filtered.documents)
       IN /\ handed' = modified_documents
          /\ store' = Embed(store, modified_documents)
          /\ log' = filtered.logging
          /\ call' = [files |-> fileData, given |-> logging,
                      loaded |-> loaded.documents, load_log |-> loaded.logging,
                      stored |-> store]
    /\ imports' = imports + 1

\* the logging list a caller passes to import_data
GivenLogging == {<<>>, <<[type |-> "INFO", message |-> "given", name |-> ""]>>}

ImportNext ==
    /\ imports < MaxImports
    /\ \E n \in 0..MaxFiles :
          \E fileData \in [1..n -> FileData], answers \in [1..n -> LookupAnswer],
             logging \in GivenLogging :
              ImportData(fileData, logging, answers)

\* ---------------------------------------------------------------------------
\* VerbaManager.retrieve_chunks over WindowRetrieveSimilarity.retrieve
\* ---------------------------------------------------------------------------
\* a chunk_id as Python holds it: an int n, a float n.0, or the str "n" or
\* "n.0"
ChunkId == [type : {"int"}, n : {1, 2}, dot : {FALSE}]
           \cup [type : {"float"}, n : {1}, dot : {TRUE}]

\* str(chunk.chunk_id)
Str(id) == [id EXCEPT !.type = "str"]

\* ci.get("chunk_id") == str(chunk.chunk_id)
SameIdAsStr(ci, chunk) == ci.chunk_id = Str(chunk.chunk_id)

DocUuids == {"d1", "d2"}

\* the template_images a chunker put into a chunk's meta: MemeChunker copies
\* the document's list, the other chunkers write no such key
TemplateImages == {<<>>, <<"template_1">>}

\* one chunk object that a query matches: the properties that
\* results["data"]["Get"][chunk_class] carries for it, and the template_images
\* of the meta its chunker gave it, which the query does not ask for
QueryResult ==
    [text : {"x", "y"}, doc_uuid : DocUuids, chunk_id : ChunkId, score : {1, 2},
     template_images : TemplateImages]

\* Chunk(text, doc_name, doc_type, doc_uuid, chunk_id) followed by set_score:
\* the other fields keep the defaults of the constructor
ChunkOf(result) ==
    [text |-> result.text, doc_uuid |-> result.doc_uuid,
     chunk_id |-> result.chunk_id, score |-> result.score,
     public_id |-> "", tags |-> "", template_images |-> <<>>]

\* sorted(chunks, key=lambda x: x.score, reverse=True): stable, so chunks of
\* one score keep their order
RECURSIVE InsertByScore(_, _)
InsertByScore(sorted, chunk) ==
    IF sorted = <<>> THEN <<chunk>>
    ELSE IF Head(sorted).score >= chunk.score
         THEN <<Head(sorted)>> \o InsertByScore(Tail(sorted), chunk)
         ELSE <<chunk>> \o sorted

RECURSIVE SortedChunks(_)
SortedChunks(chunks) ==
    IF chunks = <<>> THEN <<>>
    ELSE InsertByScore(SortedChunks(SubSeq(chunks, 1, Len(chunks) - 1)),
                       chunks[Len(chunks)])

\* WindowRetrieveSimilarity.retrieve
Retrieve(results) == SortedChunks([i \in 1..Len(results) |-> ChunkOf(results[i])])

\* an entry of a document's persisted chunk_info list
PersistedInfo(id, text) ==
    [chunk_id |-> id, text |-> text, public_id |-> "p", tags |-> "g"]

\* retrieve_document returned None
NoDocument == [found |-> FALSE, chunk_info |-> <<>>]

\* retrieve_document returned a document with this properties.chunk_info
\* (missing keys read as the empty list)
FoundDocument(doc_chunk_info) == [found |-> TRUE, chunk_info |-> doc_chunk_info]

\* what retrieve_document returns
StoredDocument ==
    {NoDocument}
    \cup {FoundDocument(info) : info \in
            {<<>>,
             <<PersistedInfo([type |-> "str", n |-> 1, dot |-> FALSE], "persisted")>>,
             <<PersistedInfo([type |-> "str", n |-> 2, dot |-> FALSE], "persisted")>>,
             <<PersistedInfo([type |-> "int", n |-> 1, dot |-> FALSE], "persisted")>>,
             <<PersistedInfo([type |-> "str", n |-> 1, dot |-> FALSE], "persisted"),
               PersistedInfo([type |-> "str", n |-> 1, dot |-> FALSE], "second")>>}}

\* next((ci for ci in doc_chunk_info if ...), None): the index of the first
\* match, 0 for None
MatchingChunkInfo(doc_chunk_info, chunk) ==
    LET matches == {i \in 1..Len(doc_chunk_info) :
                        SameIdAsStr(doc_chunk_info[i], chunk)}
    IN IF matches = {} THEN 0 ELSE Min(matches)

FallbackPublicIdFromDocument(chunk) == "p"

FallbackPublicId(chunk) == chunk.public_id

\* fallback_chunk_info
FallbackChunkInfo(chunk) ==
    [chunk_id |-> chunk.chunk_id, text |-> chunk.text,
     public_id |-> FallbackPublicId(chunk), tags |-> chunk.tags]

\* "if full_doc:"
FullDoc(full_doc) == full_doc.found

\* the body of "for chunk in chunks": what it appends to chunk_info (and the
\* chunk it appends to processed_chunks), <<>> when it appends nothing
ProcessChunk(chunk, documents) ==
    LET full_doc == documents[chunk.doc_uuid]
    IN IF FullDoc(full_doc)
       THEN LET doc_chunk_info == full_doc.chunk_info
                m == MatchingChunkInfo(doc_chunk_info, chunk)
            IN IF m # 0 THEN <<doc_chunk_info[m]>>
               ELSE <<FallbackChunkInfo(chunk)>>
       ELSE <<>>

\* the loop "for chunk in chunks": out = [processed, info]
RECURSIVE Reconcile(_, _, _)
Reconcile(out, chunks, documents) ==
    IF chunks = <<>> THEN out
    ELSE LET chunk == Head(chunks)
             info == ProcessChunk(chunk, documents)
         IN Reconcile([processed |-> IF info = <<>> THEN out.processed
                                     ELSE Append(out.processed, chunk),
                       info |-> out.info \o info],
                      Tail(chunks), documents)

\* "if processed_chunks and processed_chunks[0].meta.get('template_images')"
FirstTemplatePublicId(processed) ==
    IF processed # <<>> /\ processed[1].template_images # <<>>
    THEN processed[1].template_images[1]
    ELSE ""

RetrieveInit ==
    /\ hits = <<>>
    /\ fetched = [d \in DocUuids |-> NoDocument]
    /\ retrieved = <<>>
    /\ processed_chunks = <<>>
    /\ chunk_info = <<>>
    /\ first_template_public_id = ""
    /\ rpc = "call"

\* one call of retrieve_chunks
RetrieveChunks(results, documents) ==
    /\ rpc = "call"
    /\ rpc' = "done"
    /\ \E out \in {Reconcile([processed |-> <<>>, info |-> <<>>],
                          Retrieve(results), documents)} :
        /\ hits' = results
        /\ fetched' = documents
        /\ retrieved' = Retrieve(results)
        /\ processed_chunks' = out.processed
        /\ chunk_info' = out.info
        /\ first_template_public_id' = FirstTemplatePublicId(out.processed)

RetrieveNext ==
    /\ rpc = "call"
    /\ \E n \in 0..MaxChunks :
          \E results \in [1..n -> QueryResult],
             documents \in [DocUuids -> StoredDocument] :
              RetrieveChunks(results, documents)

\* ---------------------------------------------------------------------------
\* Document.to_json / Document.from_json, Chunk.to_dict / Chunk.from_dict
\* ---------------------------------------------------------------------------
\* a dict, as the set of its items
EmptyMapping == {}

Mapping == {EmptyMapping, {<<"k", "v">>}}

\* Chunk._vector: None or a list of floats
Vector == {[none |-> TRUE, values |-> <<>>], [none |-> FALSE, values |-> <<1>>]}

\* a Chunk object (the fields to_dict and from_dict treat alike are stood for
\* by text)
ChunkObject ==
    [text : {"c"}, tokens : {0, 3}, vector : Vector, score : {0, 1}, meta : Mapping]

\* a Document object (the str fields are stood for by text, name and views,
\* the list fields by tags)
DocumentObject(n) ==
    UNION {[text : {"t"}, name : {"a"}, views : {"", "5"}, tags : {<<>>, <<"g">>},
            meta : Mapping, metadata : Mapping, chunks : [1..k -> ChunkObject]]
           : k \in 0..n}

\* dict.get(key, default)
GetKey(dict, key, default) == IF key \in DOMAIN dict THEN dict[key] ELSE default

\* Chunk.to_dict
ChunkToDict(chunk) ==
    [text |-> chunk.text, tokens |-> chunk.tokens, vector |-> chunk.vector,
     score |-> chunk.score, meta |-> chunk.meta]

\* Chunk.from_dict: the constructor sets meta to {} and from_dict sets only
\* tokens, vector and score afterwards
ChunkFromDict(data) ==
    [text |-> GetKey(data, "text", ""),
     tokens |-> GetKey(data, "tokens", 0),
     vector |-> GetKey(data, "vector", [none |-> TRUE, values |-> <<>>]),
     score |-> GetKey(data, "score", 0),
     meta |-> EmptyMapping]

\* Document.to_json
ToJson(d) ==
    [text |-> d.text, name |-> d.name, views |-> d.views, tags |-> d.tags,
     metadata |-> d.metadata,
     chunks |-> [i \in 1..Len(d.chunks) |-> ChunkToDict(d.chunks[i])]]

\* Document.from_json
FromJson(dict) ==
    [text |-> GetKey(dict, "text", ""),
     name |-> GetKey(dict, "name", ""),
     views |-> GetKey(dict, "views", ""),
     tags |-> GetKey(dict, "tags", <<>>),
     meta |-> GetKey(dict, "meta", EmptyMapping),
     metadata |-> GetKey(dict, "metadata", EmptyMapping),
     chunks |-> LET data == GetKey(dict, "chunks", <<>>)
                IN [i \in 1..Len(data) |-> ChunkFromDict(data[i])]]

NoObject == [text |-> "", name |-> "", views |-> "", tags |-> <<>>,
             meta |-> EmptyMapping, metadata |-> EmptyMapping, chunks |-> <<>>]

DocumentInit ==
    /\ given_document = NoObject
    /\ doc_dict = ToJson(NoObject)
    /\ restored = NoObject
    /\ dpc = "new"

\* Document(...) with its chunks attached
BuildDocument(d) ==
    /\ dpc = "new"
    /\ given_document' = d
    /\ dpc' = "built"
    /\ UNCHANGED <<doc_dict, restored>>

DumpDocument ==
    /\ dpc = "built"
    /\ doc_dict' = ToJson(given_document)
    /\ dpc' = "dumped"
    /\ UNCHANGED <<given_document, restored>>

LoadDocument ==
    /\ dpc = "dumped"
    /\ restored' = FromJson(doc_dict)
    /\ dpc' = "loaded"
    /\ UNCHANGED <<given_document, doc_dict>>

DocumentNext ==
    \/ dpc = "new" /\ \E d \in DocumentObject(MaxDocChunks) : BuildDocument(d)
    \/ DumpDocument
    \/ LoadDocument

\* ---------------------------------------------------------------------------
\* The chunk stage: MemeChunker, TranscriptionChunker, VideoChunker
\* ---------------------------------------------------------------------------
Chunkers == {"MemeChunker", "TranscriptionChunker", "VideoChunker"}

\* What a chunker finds in a document: content it can use ("ok"); content
\* that is no JSON where it calls json.loads (document.text for VideoChunker,
\* metadata['full_content'] for TranscriptionChunker); JSON that lacks a key
\* it subscripts; tags that are not all str, which ", ".join rejects.
Content == {"ok", "invalid_json", "missing_key", "bad_tags"}

\* a document given to the chunk stage; chunks is len(document.chunks)
StageDocument ==
    [name : DocNames, type : {"meme", "transcription", "video"},
     content : Content, chunks : {0, 1}]

\* the body of MemeChunker's loop: the exception it raises, "" for none
MemeChunkerRaises(d) == IF d.content = "bad_tags" THEN "TypeError" ELSE ""

\* the body of VideoChunker's loop: documents with chunks are skipped, the
\* others are parsed outside any try block
VideoChunkerRaises(d) ==
    CASE d.chunks > 0 -> ""
      [] d.content = "invalid_json" -> "JSONDecodeError"
      [] d.content = "missing_key" -> "KeyError"
      [] OTHER -> ""

\* the body of TranscriptionChunker's loop: the log entry it appends, if any,
\* and the document as it leaves it
TranscriptionChunkerStep(d) ==
    CASE d.type # "transcription" ->
            [document |-> d,
             logging |-> <<[type |-> "WARNING", message |-> "Not a transcription",
                            name |-> d.name]>>]
      [] d.content = "invalid_json" ->
            [document |-> d,
             logging |-> <<[type |-> "ERROR", message |-> "JSONDecodeError",
                            name |-> d.name]>>]
      [] d.content = "missing_key" ->
            [document |-> d,
             logging |-> <<[type |-> "ERROR", message |-> "KeyError",
                            name |-> d.name]>>]
      [] OTHER -> [document |-> [d EXCEPT !.chunks = 1], logging |-> <<>>]

\* the exception raised by the first document of the batch that raises one,
\* given what each document raises
FirstRaised(raises) ==
    LET raising == {i \in 1..Len(raises) : raises[i] # ""}
    IN IF raising = {} THEN "" ELSE raises[Min(raising)]

RECURSIVE ConcatLogs(_)
ConcatLogs(steps) ==
    IF steps = <<>> THEN <<>> ELSE Head(steps).logging \o ConcatLogs(Tail(steps))

\* Chunker.chunk(documents, logging) of the named chunker
Chunk(name, documents, logging) ==
    CASE name = "MemeChunker" ->
            LET raised == FirstRaised([i \in 1..Len(documents) |->
                                         MemeChunkerRaises(documents[i])])
            IN [raised |-> raised,
                documents |-> IF raised # "" THEN <<>>
                              ELSE [i \in 1..Len(documents) |->
                                      [documents[i] EXCEPT !.chunks = 1]],
                logging |-> IF raised # "" THEN <<>> ELSE logging]
      [] name = "VideoChunker" ->
            LET raised == FirstRaised([i \in 1..Len(documents) |->
                                         VideoChunkerRaises(documents[i])])
            IN [raised |-> raised,
                documents |-> IF raised # "" THEN <<>>
                              ELSE [i \in 1..Len(documents) |->
                                      [documents[i] EXCEPT !.chunks = 1]],
                logging |-> IF raised # "" THEN <<>> ELSE logging]
      [] name = "TranscriptionChunker" ->
            LET steps == [i \in 1..Len(documents) |->
                            TranscriptionChunkerStep(documents[i])]
            IN [raised |-> "",
                documents |-> [i \in 1..Len(documents) |-> steps[i].document],
                logging |-> logging \o ConcatLogs(steps)]

ChunkInit ==
    /\ selected_chunker = "MemeChunker"
    /\ batch = <<>>
    /\ chunked = [raised |-> "", documents |-> <<>>, logging |-> <<>>]
    /\ cpc = "call"

\* "modified_documents, logging = self.chunker_manager.chunk(...)" with the
\* named chunker selected
ChunkStage(name, documents) ==
    /\ cpc = "call"
    /\ selected_chunker' = name
    /\ batch' = documents
    /\ chunked' = Chunk(name, documents, <<>>)
    /\ cpc' = "done"

ChunkNext ==
    /\ cpc = "call"
    /\ \E name \in Chunkers, n \in 0..MaxBatch :
          \E documents \in [1..n -> StageDocument] : ChunkStage(name, documents)

\* ---------------------------------------------------------------------------
\* Stage selection: VerbaManager's setters over the stage managers
\* ---------------------------------------------------------------------------
Stages == {"reader", "chunker", "embedder", "retriever", "generator"}

\* the strategies registered with each stage's manager
Registered ==
    [stage \in Stages |->
        CASE stage = "reader" -> {"CustomMemeReader", "TranscriptionReader", "VideoReader"}
          [] stage = "chunker" -> Chunkers
          [] stage = "embedder" -> {"Embedder1", "Embedder2"}
          [] stage = "retriever" -> {"WindowRetriever"}
          [] stage = "generator" -> {"PlanningGenerator", "StoryJSONGenerator"}]

Unregistered == "NoSuchStrategy"

\* <stage>_manager.set_<stage>(name): an unregistered name fails and changes
\* nothing, a registered name is stored
ManagerSelect(current, stage, name) ==
    IF name \in Registered[stage]
    THEN [selected |-> [current EXCEPT ![stage] = name], failed |-> FALSE]
    ELSE [selected |-> current, failed |-> TRUE]

\* the name reader_set_reader passes to reader_manager.set_reader
ReaderNamePassed(reader) == "CustomMemeReader"

\* the name a setter of VerbaManager passes to its manager
NamePassed(stage, name) ==
    IF stage = "reader" THEN ReaderNamePassed(name) ELSE name

\* the selections the managers start with
InitialSelection ==
    [stage \in Stages |->
        CASE stage = "reader" -> "TranscriptionReader"
          [] stage = "chunker" -> "TranscriptionChunker"
          [] stage = "embedder" -> "Embedder1"
          [] stage = "retriever" -> "WindowRetriever"
          [] stage = "generator" -> "StoryJSONGenerator"]

SelectInit ==
    /\ selected = InitialSelection
    /\ selection = [stage |-> "none", name |-> "", before |-> "", failed |-> FALSE]

\* reader_set_reader, chunker_set_chunker, embedder_set_embedder,
\* retriever_set_retriever, generator_set_generator
SetStrategy(stage, name) ==
    \E outcome \in {ManagerSelect(selected, stage, NamePassed(stage, name))} :
        /\ selected' = outcome.selected
        /\ selection' = [stage |-> stage, name |-> name,
                         before |-> selected[stage], failed |-> outcome.failed]

\* set_meme_chunker
SetMemeChunker ==
    \E outcome \in {ManagerSelect(selected, "chunker", "MemeChunker")} :
        /\ selected' = outcome.selected
        /\ selection' = [stage |-> "chunker", name |-> "MemeChunker",
                         before |-> selected["chunker"], failed |-> outcome.failed]

SelectNext ==
    \/ \E stage \in Stages :
          \E name \in Registered[stage] \cup {Unregistered} : SetStrategy(stage, name)
    \/ SetMemeChunker

\* ---------------------------------------------------------------------------
\* Specifications
\* ---------------------------------------------------------------------------
Init == TimelineInit /\ PlanningInit /\ ImportInit /\ RetrieveInit
        /\ DocumentInit /\ ChunkInit /\ SelectInit

SpecTimeline == Init /\ [][TimelineNext /\ UNCHANGED <<pvars, ivars, rvars, dvars, cvars, svars>>]_vars

SpecPlanning == Init /\ [][PlanningNext /\ UNCHANGED <<tvars, ivars, rvars, dvars, cvars, svars>>]_vars

InitShared ==
    /\ TimelineInit /\ SharedInit /\ ImportInit /\ RetrieveInit /\ DocumentInit
    /\ ChunkInit /\ SelectInit

SpecShared == InitShared /\ [][SharedNext /\ UNCHANGED <<tvars, ivars, rvars, dvars, cvars, svars>>]_vars

SpecImport == Init /\ [][ImportNext /\ UNCHANGED <<tvars, pvars, rvars, dvars, cvars, svars>>]_vars

SpecRetrieve == Init /\ [][RetrieveNext /\ UNCHANGED <<tvars, pvars, ivars, dvars, cvars, svars>>]_vars

SpecDocument == Init /\ [][DocumentNext /\ UNCHANGED <<tvars, pvars, ivars, rvars, cvars, svars>>]_vars

SpecChunk == Init /\ [][ChunkNext /\ UNCHANGED <<tvars, pvars, ivars, rvars, dvars, svars>>]_vars

SpecSelect == Init /\ [][SelectNext /\ UNCHANGED <<tvars, pvars, ivars, rvars, dvars, cvars>>]_vars

\* ---------------------------------------------------------------------------
\* Properties of the timeline synthesis
\* ---------------------------------------------------------------------------
\* the half-open intervals [start, start+length) of two commands intersect
Overlap(c1, c2) ==
    Max({c1.start, c2.start}) < Min({c1.start + c1.length, c2.start + c2.length})

AudioIdx == {i \in 1..Len(commands) : commands[i].assetType = "audio"}

SoundIdx == {i \in 1..Len(commands) : commands[i].clipPath = "sound"}

DialogueIdx(k) ==
    {i \in 1..Len(commands) : commands[i].clipPath = "dialogue" /\ commands[i].shot = k}

\* current_time at the start of shot k: the declared durations before it
ShotStart(k) == SumSeq([j \in 1..(k - 1) |-> shots[j].duration])

\* the lines of a dialogue list that have both an audio file and a duration
RECURSIVE Resolved(_)
Resolved(lines) ==
    IF lines = <<>> THEN <<>>
    ELSE IF Head(lines).audio_file /\ Head(lines).duration > 0
         THEN <<Head(lines)>> \o Resolved(Tail(lines))
         ELSE Resolved(Tail(lines))

\* the i-th smallest element of a finite set of integers
RECURSIVE Nth(_, _)
Nth(S, i) == IF i = 1 THEN Min(S) ELSE Nth(S \ {Min(S)}, i - 1)

\* the largest number of audio clips that play at one instant; for intervals
\* this is the least number of tracks on which they fit without overlap
AudioDepth ==
    IF AudioIdx = {} THEN 0
    ELSE Max({Cardinality({j \in AudioIdx :
                  /\ commands[j].start <= commands[i].start
                  /\ commands[i].start < commands[j].start + commands[j].length})
              : i \in AudioIdx})

\* the audio commands were emitted in non-decreasing order of their start
AudioStartsAscend ==
    \A i, j \in AudioIdx : i < j => commands[i].start <= commands[j].start

\* C1: no two commands of the output that carry the same track number have
\* overlapping intervals [start, start+length), image commands included.
C1_NoOverlapOnAnyTrack ==
    \A i, j \in 1..Len(commands) :
        (i < j /\ commands[i].track = commands[j].track)
            => ~Overlap(commands[i], commands[j])

C3_TracksMinimal == audio_next_track - 1 = AudioDepth

\* C3 amended: when the audio clips were processed in non-decreasing order of
\* start time, the number of audio tracks allocated is the least number of
\* tracks on which they fit without overlap.
C3_TracksMinimalWhenAscending ==
    AudioStartsAscend => audio_next_track - 1 = AudioDepth

\* three audio clips in ascending start order on two tracks, one track reused
C3_Witness ==
    /\ tpc = "done"
    /\ AudioStartsAscend
    /\ Cardinality(AudioIdx) >= 3
    /\ audio_next_track = 3
    /\ \E i, j \in AudioIdx : i < j /\ commands[i].track = commands[j].track

\* C4: the sound effects of one shot receive pairwise distinct tracks.
C4_SoundsOfShotDistinctTracks ==
    \A i, j \in SoundIdx :
        (i < j /\ commands[i].shot = commands[j].shot)
            => commands[i].track # commands[j].track

\* two sound effects of the second shot, one of them on a track that an
\* audio clip of the first shot had used
C4_Witness ==
    \E i, j \in SoundIdx :
        /\ i < j
        /\ commands[i].shot = 2
        /\ commands[j].shot = 2
        /\ \E h \in AudioIdx :
            commands[h].shot = 1 /\ commands[h].track \in {commands[i].track, commands[j].track}

\* C5: the dialogue commands of a shot are its resolved lines in order, the
\* i-th starting at the shot's start plus the durations of the resolved lines
\* before it; in a single shot without sound effects they share one track.
C5_DialogueBackToBack ==
    /\ \A k \in 1..Len(shots) :
        LET res == Resolved(shots[k].dialogue)
            idx == DialogueIdx(k)
        IN /\ Cardinality(idx) = Len(res)
           /\ \A i \in 1..Len(res) :
                /\ commands[Nth(idx, i)].length = res[i].duration
                /\ commands[Nth(idx, i)].start =
                     ShotStart(k) + SumSeq([h \in 1..(i - 1) |-> res[h].duration])
    /\ (Len(shots) = 1 /\ shots[1].sound_effects = <<>>)
        => /\ Cardinality(AudioIdx) = Len(Resolved(shots[1].dialogue))
           /\ \A i, j \in AudioIdx : commands[i].track = commands[j].track

\* one shot of duration 2 with three resolved lines of duration 1: the third
\* line starts when the shot ends
C5_Witness ==
    /\ Len(shots) = 1
    /\ shots[1].duration = 2
    /\ shots[1].sound_effects = <<>>
    /\ Len(Resolved(shots[1].dialogue)) = 3
    /\ Cardinality(DialogueIdx(1)) = 3
    /\ \E i \in DialogueIdx(1) : commands[i].start = 2

\* C6: every shot adds its declared duration to current_time, and shots that
\* carry no images, sound effects or dialogue emit no command.
C6_TimeIsSumOfDurations ==
    /\ current_time = SumSeq([k \in 1..Len(shots) |-> shots[k].duration])
    /\ (\A k \in 1..Len(shots) : ItemsOf(shots[k]) = 0) => commands = <<>>

\* two shots of durations 2 and 1 without any content
C6_Witness ==
    /\ tpc = "done"
    /\ Len(shots) = 2
    /\ shots[1].duration = 2
    /\ shots[2].duration = 1
    /\ \A k \in 1..2 : ItemsOf(shots[k]) = 0
    /\ commands = <<>>
    /\ current_time = 3

\* ---------------------------------------------------------------------------
\* Properties of PlanningGenerator
\* ---------------------------------------------------------------------------
\* C7 as stated: every turn handled in AWAITING_INSTRUCTION leaves the
\* generator in AWAITING_CONFIRMATION with a plan stored in the conversation.
C7_InstructionTurnStoresPlan ==
    turn.handler = "handle_initial_request"
        => /\ state = "AWAITING_CONFIRMATION"
           /\ turn.conversation # None
           /\ conv[turn.conversation] # <<>>

\* C7 amended: a turn handled in AWAITING_INSTRUCTION whose LLM call returns
\* arguments that are a JSON object whose "steps", if present, is a list of
\* objects leaves the generator in AWAITING_CONFIRMATION and, when a
\* conversation dict was passed, stores a plan with one step per raw step in
\* it; any other such turn leaves the state AWAITING_INSTRUCTION.
C7_BuiltPlanAwaitsConfirmation ==
    turn.handler = "handle_initial_request"
        => IF turn.shape = "plan"
           THEN /\ state = "AWAITING_CONFIRMATION"
                /\ turn.conversation # None
                    => /\ conv[turn.conversation] # <<>>
                       /\ Len(conv[turn.conversation][1].steps) = turn.raw_steps
           ELSE state = "AWAITING_INSTRUCTION"

\* an instruction turn with a conversation dict whose arguments carry the
\* largest number of steps, one of them without an operation
C7_Witness ==
    /\ turn.handler = "handle_initial_request"
    /\ turn.shape = "plan"
    /\ turn.raw_steps = MaxSteps
    /\ turn.conversation = "c1"
    /\ state = "AWAITING_CONFIRMATION"
    /\ Len(conv["c1"][1].steps) = MaxSteps
    /\ \E i \in 1..MaxSteps : conv["c1"][1].steps[i].operation = "Unknown operation"

\* C8: a turn classified CONFIRM in AWAITING_CONFIRMATION, with a plan stored
\* in its conversation, executes every step of that plan (one result record
\* per step, in order) and leaves the generator in AWAITING_INSTRUCTION.
C8_ConfirmExecutesStoredPlan ==
    (/\ turn.handler = "handle_confirmation"
     /\ turn.classification = "CONFIRM"
     /\ HasLastPlan(turn.conversation))
        => LET plan == conv[turn.conversation][1]
           IN /\ state = "AWAITING_INSTRUCTION"
              /\ Len(turn.results) = Len(plan.steps)
              /\ \A i \in 1..Len(plan.steps) :
                    turn.results[i].operation = plan.steps[i].operation

\* C9: a turn classified CHANGE in AWAITING_CONFIRMATION leaves the generator
\* in AWAITING_INSTRUCTION and executes no plan step.
C9_ChangeExecutesNothing ==
    (turn.handler = "handle_confirmation" /\ turn.classification = "CHANGE")
        => /\ state = "AWAITING_INSTRUCTION"
           /\ turn.results = <<>>
           /\ turn.returned # "execution_results"

\* a CHANGE turn in a conversation that holds a plan with steps
C9_Witness ==
    /\ turn.handler = "handle_confirmation"
    /\ turn.classification = "CHANGE"
    /\ turn.conversation = "c1"
    /\ conv["c1"] # <<>>
    /\ Len(conv["c1"][1].steps) = MaxSteps
    /\ ValidStoredPlan(conv["c1"][1])
    /\ state = "AWAITING_INSTRUCTION"

\* C16: execute_plan returns exactly one record per plan step, in plan order;
\* a step whose operation raised has a record with status "failed" and an
\* error text, and the steps after it are executed all the same.
C16_OneRecordPerStep ==
    turn.returned = "execution_results"
        => LET plan == conv[turn.conversation][1]
           IN /\ Len(turn.results) = Len(plan.steps)
              /\ \A i \in 1..Len(plan.steps) :
                    /\ turn.results[i].operation = plan.steps[i].operation
                    /\ turn.results[i].description = plan.steps[i].description
                    /\ IF i \in turn.raising
                       THEN /\ turn.results[i].status = "failed"
                            /\ turn.results[i].error # Absent
                       ELSE /\ turn.results[i].status = "success"
                            /\ turn.results[i].result # Absent

\* the first step of a stored plan failed and the last one succeeded
C16_Witness ==
    /\ turn.returned = "execution_results"
    /\ Len(turn.results) = MaxSteps
    /\ MaxSteps > 1
    /\ turn.raising = {1}
    /\ turn.results[1].status = "failed"
    /\ turn.results[MaxSteps].status = "success"
    /\ turn.results[MaxSteps].operation = "delete_section"

\* what generate_stream yields for a turn whose plan request timed out
TimeoutReply == Reply([returned |-> "API call timed out", raised |-> ""])

\* C17: the outcome reported for an instruction turn whose LLM response is
\* malformed or structurally invalid is never the outcome reported for a turn
\* whose LLM call timed out.
C17_TimeoutReportedApart ==
    /\ (turn.handler = "handle_initial_request" /\ turn.shape = "timeout")
          => turn.reply = TimeoutReply
    /\ (turn.handler = "handle_initial_request" /\ turn.shape = "unparseable")
          => turn.reply # TimeoutReply

\* ---------------------------------------------------------------------------
\* Properties of import_data
\* ---------------------------------------------------------------------------
\* how many elements of a sequence satisfy a test
CountOf(seq, Test(_)) == Cardinality({i \in 1..Len(seq) : Test(seq[i])})

\* the WARNING entries the duplicate filter wrote for a name
DuplicateWarnings(n) ==
    CountOf(log, LAMBDA e : e.type = "WARNING" /\ e.message = "already exists"
                            /\ e.name = n)

\* C10: the documents handed to the embedding stage together with the
\* persisted store never contain two documents with the same name.
C10_DocumentNamesUnique ==
    /\ \A i, j \in 1..Len(handed) : i < j => handed[i].name # handed[j].name
    /\ \A n \in DocNames : store[n] <= 1

\* C11: every document read in a batch whose name the store already held gets
\* exactly one WARNING entry and no ERROR entry and is not passed on to the
\* chunk and embed stages; every other document of the batch is passed on.
C11_DuplicatesWarnedAndDropped ==
    \A n \in DocNames :
        LET read == CountOf(call.loaded, LAMBDA d : d.name = n)
            passed == CountOf(handed, LAMBDA d : d.name = n /\ d.chunks > 0)
        IN IF call.stored[n] > 0
           THEN /\ DuplicateWarnings(n) = read
                /\ passed = 0
                /\ CountOf(log, LAMBDA e : e.type = "ERROR" /\ e.name = n) = 0
           ELSE passed = read

\* ---------------------------------------------------------------------------
\* Properties of retrieve_chunks
\* ---------------------------------------------------------------------------
\* C12: chunk_info and the processed chunk list are as long as the
\* retriever's list, the i-th processed chunk is the i-th retrieved chunk and
\* the i-th chunk_info entry carries its chunk_id, also when a parent
\* document cannot be fetched.
C12_ChunkInfoAlignedWithRetrieved ==
    /\ Len(chunk_info) = Len(retrieved)
    /\ Len(processed_chunks) = Len(retrieved)
    /\ \A i \in 1..Len(retrieved) :
          /\ i <= Len(processed_chunks) => processed_chunks[i] = retrieved[i]
          /\ i <= Len(chunk_info) => chunk_info[i].chunk_id.n = retrieved[i].chunk_id.n

\* the position in chunk_info of the record of the i-th retrieved chunk: the
\* chunks before it whose document was fetched, plus one
InfoIndex(i) ==
    Cardinality({j \in 1..i : fetched[retrieved[j].doc_uuid].found})

\* no entry of the chunk's parent document has the chunk's chunk_id, whatever
\* the type either is held in
NoEntryWithId(chunk) ==
    LET doc == fetched[chunk.doc_uuid].chunk_info
    IN \A k \in 1..Len(doc) :
          ~(doc[k].chunk_id.n = chunk.chunk_id.n
            /\ doc[k].chunk_id.dot = chunk.chunk_id.dot)

\* C13: when no entry of the fetched parent document's chunk_info has the
\* retrieved chunk's chunk_id, the record returned for the chunk has the
\* chunk's own text, public_id and tags.
C13_FallbackCopiesChunk ==
    \A i \in 1..Len(retrieved) :
        (/\ fetched[retrieved[i].doc_uuid].found
         /\ NoEntryWithId(retrieved[i]))
            => /\ InfoIndex(i) <= Len(chunk_info)
               /\ chunk_info[InfoIndex(i)].text = retrieved[i].text
               /\ chunk_info[InfoIndex(i)].public_id = retrieved[i].public_id
               /\ chunk_info[InfoIndex(i)].tags = retrieved[i].tags

\* a chunk falls back although its document has entries, next to a chunk
\* that is matched
C13_Witness ==
    /\ Len(retrieved) = MaxChunks
    /\ \E i, j \in 1..Len(retrieved) :
          /\ fetched[retrieved[i].doc_uuid].found
          /\ fetched[retrieved[i].doc_uuid].chunk_info # <<>>
          /\ NoEntryWithId(retrieved[i])
          /\ chunk_info[InfoIndex(i)].text = retrieved[i].text
          /\ fetched[retrieved[j].doc_uuid].found
          /\ chunk_info[InfoIndex(j)].text = "persisted"

\* ---------------------------------------------------------------------------
\* Properties of the Document round trip
\* ---------------------------------------------------------------------------
\* C14: Document.from_json(Document.to_json(D)) equals D field for field,
\* meta, metadata and the chunks with their meta, tokens, vector and score
\* included.
C14_RoundTrip == dpc = "loaded" => restored = given_document

\* ---------------------------------------------------------------------------
\* Properties of the chunk stage
\* ---------------------------------------------------------------------------
\* the chunker accepts documents of this type
Fits(name, d) == name = "TranscriptionChunker" => d.type = "transcription"

\* C15: with any of the three chunkers the call does not raise, every
\* document of the batch whose content is well formed is returned with its
\* chunks, and a document that could not be chunked has an ERROR entry.
C15_MalformedDocumentIsolated ==
    cpc = "done"
        => /\ chunked.raised = ""
           /\ Len(chunked.documents) = Len(batch)
           /\ \A i \in 1..Len(batch) :
                 Fits(selected_chunker, batch[i])
                    => IF batch[i].content = "ok"
                       THEN chunked.documents[i].chunks > 0
                       ELSE \/ chunked.documents[i].chunks > 0
                            \/ \E k \in 1..Len(chunked.logging) :
                                  /\ chunked.logging[k].type = "ERROR"
                                  /\ chunked.logging[k].name = batch[i].name

\* ---------------------------------------------------------------------------
\* Properties of stage selection
\* ---------------------------------------------------------------------------
\* C18: selecting a registered name makes it the stage's selected strategy,
\* reader_set_reader included; selecting an unregistered name fails and
\* leaves the selection as it was.
C18_SelectionIsTheNameAsked ==
    selection.stage # "none"
        => IF selection.name \in Registered[selection.stage]
           THEN selected[selection.stage] = selection.name /\ ~selection.failed
           ELSE selected[selection.stage] = selection.before /\ selection.failed

\* C20: from AWAITING_CONFIRMATION, a turn classified CLARIFY, or classified
\* as anything other than CONFIRM, CHANGE or CLARIFY, leaves the state
\* AWAITING_CONFIRMATION, executes no plan step and leaves every stored plan as
\* it was; the handler raises nothing, and in the unrecognised case what it
\* returns is the "Unexpected response" error.
C20_NoDecisionKeepsPlanAndState ==
    [][(/\ state = "AWAITING_CONFIRMATION"
        /\ turn'.handler = "handle_confirmation"
        /\ turn'.classification \notin {"", "CONFIRM", "CHANGE"})
          => /\ state' = "AWAITING_CONFIRMATION"
             /\ conv' = conv
             /\ turn'.results = <<>>
             /\ turn'.raised = ""
             /\ turn'.returned # "execution_results"
             /\ turn'.classification # "CLARIFY"
                    => turn'.returned = "Unexpected response"]_vars

\* an unrecognised classification in a conversation that holds a plan with
\* steps
C20_Witness ==
    /\ turn.handler = "handle_confirmation"
    /\ turn.classification \notin {"", "CONFIRM", "CHANGE", "CLARIFY"}
    /\ turn.returned = "Unexpected response"
    /\ turn.conversation = "c1"
    /\ conv["c1"] # <<>>
    /\ Len(conv["c1"][1].steps) = MaxSteps
    /\ state = "AWAITING_CONFIRMATION"

\* ---------------------------------------------------------------------------
\* Properties of Reader.load
\* ---------------------------------------------------------------------------
\* C19: for each input file load either produces one Document or appends one
\* log entry, so that no file is dropped silently, and the log it returns
\* starts with the log it was given.
C19_EveryFileLoadedOrLogged ==
    /\ Len(call.load_log) >= Len(call.given)
    /\ SubSeq(call.load_log, 1, Len(call.given)) = call.given
    /\ Len(call.loaded) + (Len(call.load_log) - Len(call.given)) = Len(call.files)

\* ---------------------------------------------------------------------------
\* Properties of PlanningGenerator: the manual extraction pass
\* ---------------------------------------------------------------------------
\* C21: an instruction turn whose LLM call returned arguments, whether or not
\* they pass schema validation, is not aborted: the handler raises nothing,
\* the state becomes AWAITING_CONFIRMATION, and the plan stored in the
\* conversation has one step per raw step and no operation, description or
\* summary that is absent or not a text.
C21_InvalidPlanDegrades ==
    (turn.handler = "handle_initial_request"
     /\ turn.shape \in {"plan", "unparseable"})
        => /\ turn.raised = ""
           /\ state = "AWAITING_CONFIRMATION"
           /\ turn.conversation # None
                => /\ conv[turn.conversation] # <<>>
                   /\ LET plan == conv[turn.conversation][1]
                      IN /\ Len(plan.steps) = turn.raw_steps
                         /\ plan.summary \notin {Absent, NonStr}
                         /\ \A i \in 1..Len(plan.steps) :
                               /\ plan.steps[i].operation \notin {Absent, NonStr}
                               /\ plan.steps[i].description \notin {Absent, NonStr}

\* ---------------------------------------------------------------------------
\* Properties of the timeline synthesis: the allocation rule
\* ---------------------------------------------------------------------------
\* the audio commands emitted before command i
AudioBefore(i) == {j \in AudioIdx : j < i}

\* the audio tracks allocated before command i
AllocatedBefore(i) == {commands[j].track : j \in AudioBefore(i)}

\* the free-time of track t when command i is placed: the end of the last
\* clip put on it
FreeTimeBefore(i, t) ==
    LET last == Max({j \in AudioBefore(i) : commands[j].track = t})
    IN commands[last].start + commands[last].length

\* the allocated tracks whose free-time is at most the start of command i
FreeBefore(i) ==
    {t \in AllocatedBefore(i) : FreeTimeBefore(i, t) <= commands[i].start}

\* C22: every audio clip is on the lowest-numbered allocated track whose
\* free-time is at most the clip's start, or, when there is none, on a fresh
\* track numbered one more than the number of tracks allocated so far; track
\* ids are handed out 1, 2, 3, ... without gaps, and each track's recorded
\* free-time is the start plus the duration of the last clip placed on it.
C22_LowestFreeTrackOrFresh ==
    /\ \A i \in AudioIdx :
          commands[i].track =
              IF FreeBefore(i) = {} THEN Cardinality(AllocatedBefore(i)) + 1
              ELSE Min(FreeBefore(i))
    /\ DOMAIN audio_track_end_times = 1..(audio_next_track - 1)
    /\ {commands[i].track : i \in AudioIdx} = 1..(audio_next_track - 1)
    /\ \A t \in DOMAIN audio_track_end_times :
          audio_track_end_times[t] = FreeTimeBefore(Len(commands) + 1, t)

\* a clip went to the lower of two free tracks, and another clip found no
\* free track and opened the third one
C22_Witness ==
    /\ tpc = "done"
    /\ \E i \in AudioIdx :
          /\ Cardinality(FreeBefore(i)) >= 2
          /\ commands[i].track = Min(FreeBefore(i))
    /\ \E i \in AudioIdx :
          /\ FreeBefore(i) = {}
          /\ commands[i].track = 3

\* ---------------------------------------------------------------------------
\* Properties of the timeline synthesis: image layers
\* ---------------------------------------------------------------------------
\* the track the claim gives to a role
RoleTrack(role) ==
    CASE role = "Background" -> 1 [] role = "Subject" -> 2 [] role = "Foreground" -> 3

\* the image commands of shot k for a role, and the shot's image entries of
\* that role
ImageIdx(k, role) ==
    {i \in 1..Len(commands) :
        /\ commands[i].shot = k
        /\ commands[i].assetType = "video"
        /\ commands[i].clipPath = role}

ImageEntries(k, role) ==
    {h \in 1..Len(shots[k].images) : shots[k].images[h].layer = role}

\* C23: every image entry of a shot has exactly one command, on track 1, 2 or
\* 3 for Background, Subject or Foreground, starting at the sum of the
\* declared durations of the shots before it and as long as the entry's
\* declared duration; within a shot the image commands come in role order
\* and before the shot's audio commands.
C23_ImageLayerPlacement ==
    \A k \in 1..Len(shots) :
        /\ \A role \in {"Background", "Subject", "Foreground"} :
              /\ Cardinality(ImageIdx(k, role)) = Cardinality(ImageEntries(k, role))
              /\ \A n \in 1..Cardinality(ImageEntries(k, role)) :
                    LET c == commands[Nth(ImageIdx(k, role), n)]
                        image == shots[k].images[Nth(ImageEntries(k, role), n)]
                    IN /\ c.action = "insert_clip"
                       /\ c.track = RoleTrack(role)
                       /\ c.start = ShotStart(k)
                       /\ c.length = image.duration
        /\ \A i, j \in 1..Len(commands) :
              (/\ commands[i].shot = k
               /\ commands[j].shot = k
               /\ commands[i].assetType = "video"
               /\ i < j)
                 => \/ commands[j].assetType = "audio"
                    \/ RoleTrack(commands[i].clipPath) <= RoleTrack(commands[j].clipPath)
        /\ \A i, j \in 1..Len(commands) :
              (/\ commands[i].shot = k
               /\ commands[j].shot = k
               /\ commands[i].assetType = "audio"
               /\ i < j) => commands[j].assetType = "audio"

\* the second shot, after a shot of duration 2, lists a Foreground image
\* before a Background image of another duration, and has a sound effect
C23_Witness ==
    /\ tpc = "done"
    /\ Len(shots) = 2
    /\ shots[1].duration = 2
    /\ Len(shots[2].images) = 2
    /\ shots[2].images[1].layer = "Foreground"
    /\ shots[2].images[2].layer = "Background"
    /\ shots[2].images[1].duration # shots[2].images[2].duration
    /\ Len(shots[2].sound_effects) = 1
    /\ \E i \in ImageIdx(2, "Background") :
          /\ commands[i].start = 2
          /\ commands[i].length = shots[2].images[2].duration
          /\ \E j \in ImageIdx(2, "Foreground") : i < j

\* ---------------------------------------------------------------------------
\* Properties of the timeline synthesis: skipped dialogue lines
\* ---------------------------------------------------------------------------
\* the lines of a dialogue list that have an audio file or a duration
RECURSIVE NotLackingBoth(_)
NotLackingBoth(lines) ==
    IF lines = <<>> THEN <<>>
    ELSE IF Head(lines).audio_file \/ Head(lines).duration > 0
         THEN <<Head(lines)>> \o NotLackingBoth(Tail(lines))
         ELSE NotLackingBoth(Tail(lines))

\* C24 as stated: a dialogue line is skipped exactly when it lacks both an
\* audio file and a duration, so every line that has one of the two emits
\* one command.
C24_SkippedOnlyWhenLackingBoth ==
    \A k \in 1..Len(shots) :
        Cardinality(DialogueIdx(k)) = Len(NotLackingBoth(shots[k].dialogue))

\* the synthesis of a list of shots from a given allocator state
RECURSIVE Synthesis(_, _, _, _)
Synthesis(st, ss, now, idx) ==
    IF ss = <<>> THEN st
    ELSE Synthesis(ShotBody(st, Head(ss), now, idx), Tail(ss),
                   AdvanceTime(now, Head(ss).duration), idx + 1)

\* the shots without the dialogue lines that lack an audio file or a duration
WithoutSkippedLines ==
    [k \in 1..Len(shots) |-> [shots[k] EXCEPT !.dialogue = Resolved(@)]]

\* C24 amended: a dialogue line is skipped exactly when it lacks an audio
\* file or a duration; each other line emits one command, whose length is not
\* zero, and the output and the allocator are what they would be had the
\* skipped lines not been in the input.
C24_SkippedWhenLackingEither ==
    /\ \A k \in 1..Len(shots) :
          Cardinality(DialogueIdx(k)) = Len(Resolved(shots[k].dialogue))
    /\ \A i \in 1..Len(commands) :
          commands[i].clipPath = "dialogue" => commands[i].length > 0
    /\ [next |-> audio_next_track, ends |-> audio_track_end_times, cmds |-> commands]
          = Synthesis([next |-> 1, ends |-> <<>>, cmds |-> <<>>],
                      WithoutSkippedLines, 0, 1)

\* a shot whose first and last lines have audio and a duration, with a line
\* that has only an audio file and a line that has only a duration between
\* them: two commands, the second one right after the first
C24_Witness ==
    /\ tpc = "done"
    /\ Len(shots) = 1
    /\ Len(shots[1].dialogue) = 4
    /\ shots[1].dialogue[1].audio_file /\ shots[1].dialogue[1].duration = 2
    /\ shots[1].dialogue[2].audio_file /\ shots[1].dialogue[2].duration = 0
    /\ ~shots[1].dialogue[3].audio_file /\ shots[1].dialogue[3].duration = 1
    /\ shots[1].dialogue[4].audio_file /\ shots[1].dialogue[4].duration = 1
    /\ Len(commands) = 2
    /\ commands[2].start = 2
    /\ commands[2].track = 1
    /\ audio_next_track = 2

\* ---------------------------------------------------------------------------
\* Properties of retrieve_chunks: the match rule and the template pointer
\* ---------------------------------------------------------------------------
\* the entries of the chunk's parent document written for the chunk's index:
\* a str id that names the same number as the chunk's chunk_id
EntriesFor(chunk) ==
    LET doc == fetched[chunk.doc_uuid].chunk_info
    IN {k \in 1..Len(doc) :
          doc[k].chunk_id.type = "str" /\ doc[k].chunk_id.n = chunk.chunk_id.n}

\* C25: whenever the fetched parent document's chunk_info has an entry for the
\* retrieved chunk's index, the record returned for the chunk is that entry
\* (the first such), also when the chunk's id is the float of the index and
\* the entry's id the str of the index.
C25_PersistedEntryPreferred ==
    \A i \in 1..Len(retrieved) :
        (/\ fetched[retrieved[i].doc_uuid].found
         /\ EntriesFor(retrieved[i]) # {})
            => /\ InfoIndex(i) <= Len(chunk_info)
               /\ chunk_info[InfoIndex(i)] =
                     fetched[retrieved[i].doc_uuid].chunk_info[
                         Min(EntriesFor(retrieved[i]))]

\* the highest-ranked hit: the first of the hits with the highest score
FirstHit ==
    hits[Min({i \in 1..Len(hits) : \A j \in 1..Len(hits) : hits[j].score <= hits[i].score})]

C27_NoTerminalState ==
    /\ state \in {"AWAITING_INSTRUCTION", "AWAITING_CONFIRMATION"}
    /\ turn.handler # "none" => turn.reply # ""
    /\ state = "AWAITING_INSTRUCTION"
          => \A conversation \in (DOMAIN conv) \cup {None} :
                \E response \in FunctionResponse :
                    HandleInitialRequest(conversation, response).state
                        = "AWAITING_CONFIRMATION"
    /\ state = "AWAITING_CONFIRMATION"
          => \A conversation \in (DOMAIN conv) \cup {None} :
                \E content \in ClassifierContent :
                    HandleConfirmation(conversation, content, {}).state
                        = "AWAITING_INSTRUCTION"

\* a CONFIRM turn failed on a stored plan that no longer validates, and the
\* generator is still awaiting confirmation
C27_Witness ==
    /\ state = "AWAITING_CONFIRMATION"
    /\ turn.handler = "handle_confirmation"
    /\ turn.classification = "CONFIRM"
    /\ turn.raised = "ValidationError"
    /\ conv["c1"] # <<>>
    /\ ~ValidStoredPlan(conv["c1"][1])

\* ---------------------------------------------------------------------------
\* Properties of a PlanningGenerator shared by two conversations
\* ---------------------------------------------------------------------------
\* C28: a CONFIRM turn that executes a plan executes the plan of the most
\* recent instruction turn that built one: the plan stored in the dict that
\* turn was given, never the plan another dict still holds.
C28_ConfirmExecutesLatestPlan ==
    (turn.handler = "handle_confirmation" /\ turn.returned = "execution_results")
        => turn.conversation = built_for

\* ---------------------------------------------------------------------------
\* Properties of PlanningGenerator: CONFIRM without a plan, failed instructions
\* ---------------------------------------------------------------------------
\* C29: a CONFIRM turn whose conversation argument is None or holds no
\* 'last_plan' executes no step, leaves the state AWAITING_CONFIRMATION, and
\* the handler returns the "No plan found to execute" error; a CONFIRM turn
\* leaves the state AWAITING_INSTRUCTION only when it executed a stored plan.
C29_ConfirmWithoutPlan ==
    (turn.handler = "handle_confirmation" /\ turn.classification = "CONFIRM")
        => /\ ~HasLastPlan(turn.conversation)
                => /\ turn.results = <<>>
                   /\ state = "AWAITING_CONFIRMATION"
                   /\ turn.returned = "No plan found to execute"
                   /\ turn.raised = ""
           /\ state = "AWAITING_INSTRUCTION"
                => /\ HasLastPlan(turn.conversation)
                   /\ turn.returned = "execution_results"

\* a CONFIRM turn that passed a dict without a plan, after an instruction
\* turn that was given no dict
C29_Witness ==
    /\ turn.handler = "handle_confirmation"
    /\ turn.classification = "CONFIRM"
    /\ turn.conversation = "c1"
    /\ conv["c1"] = <<>>
    /\ turn.returned = "No plan found to execute"
    /\ state = "AWAITING_CONFIRMATION"

\* C30: an instruction turn whose LLM call timed out or raised, or whose
\* arguments the manual pass could not read, leaves the state
\* AWAITING_INSTRUCTION and every conversation's stored plan as it was; an
\* instruction turn moves the state to AWAITING_CONFIRMATION only when it
\* built a plan.
C30_FailedInstructionChangesNothing ==
    [][(state = "AWAITING_INSTRUCTION" /\ turn'.handler = "handle_initial_request")
          => /\ turn'.shape \in {"timeout", "api_error", "unparseable"}
                  => /\ state' = "AWAITING_INSTRUCTION"
                     /\ conv' = conv
                     /\ turn'.returned # "plan"
             /\ state' = "AWAITING_CONFIRMATION" => turn'.returned = "plan"]_vars

\* the manual pass failed in a conversation that holds a plan with steps from
\* an earlier turn
C30_Witness ==
    /\ turn.handler = "handle_initial_request"
    /\ turn.shape = "unparseable"
    /\ turn.raised # ""
    /\ turn.conversation = "c1"
    /\ conv["c1"] # <<>>
    /\ Len(conv["c1"][1].steps) = MaxSteps
    /\ state = "AWAITING_INSTRUCTION"

====
